---- MODULE Spec2Model ----
(***************************************************************************)
(* The four DPLL solver variants of dpll_variants.py (BaseDPLL,            *)
(* WatchedLiteralsDPLL, PreprocessingDPLL, CombinedDPLL) run by a driver   *)
(* that obtains each solver from get_solver and calls solve() on it.       *)
(* The encoder of encoder.py gives the driver the clauses of a puzzle, and  *)
(* the runs of experiment_runner.py keep their results in raw_results.csv.  *)
(*                                                                         *)
(* A literal is a nonzero integer, a clause a sequence of literals, a CNF  *)
(* a sequence of clauses.  A Python dict var -> bool is a function on      *)
(* 1..num_vars with values 1 (True), -1 (False) and 0 (key absent).        *)
(* Python None is 0 where a literal or variable is expected.               *)
(***************************************************************************)
EXTENDS Integers, Sequences, FiniteSets, TLC

\* ------------------------------------------------------------------ bounds
NumVars == 2          \* variables of the CNFs of any shape
MaxClauses == 2       \* clauses of the CNFs of any shape
WideVars == 3         \* variables of the two-clause CNFs
MaxChain == 4         \* length of the longest unit chain
MaxN == 4             \* largest number of rows and of columns of a puzzle file
MaxPasses == 2        \* _preprocess calls on one clause set and its results
MaxCalls == 2         \* solve() calls a caller makes on one solver object
RecursionLimit == 8   \* nested calls the interpreter allows above num_vars
MaxRuns == 3          \* runs of the experiment driver on one results directory
MaxRepetitions == 1   \* largest num_repetitions of a configuration

\* max_new_clauses of _bounded_variable_elimination, as passed by _preprocess
MaxNewClauses == 10

\* ----------------------------------------------------------------- helpers
Abs(x) == IF x < 0 THEN -x ELSE x
Sgn(l) == IF l > 0 THEN 1 ELSE -1
InClause(lit, clause) == \E i \in DOMAIN clause : clause[i] = lit
LitSet(clause) == {clause[i] : i \in DOMAIN clause}
SeqRange(s) == {s[i] : i \in DOMAIN s}
AllLits(clauses) == UNION {LitSet(clauses[i]) : i \in DOMAIN clauses}
Min(S) == CHOOSE x \in S : \A y \in S : x <= y
EmptyAssignment(n) == [v \in 1..n |-> 0]
NumAssigned(a) == Cardinality({v \in DOMAIN a : a[v] # 0})
LitTrue(l, a) == a[Abs(l)] = Sgn(l)
LitUnassigned(l, a) == a[Abs(l)] = 0

\* the literals of the clauses in one sequence, clause after clause (the list
\* is halved at each step, which keeps the nesting of the evaluation low)
RECURSIVE Flatten(_)
Flatten(clauses) ==
    IF Len(clauses) = 0 THEN <<>>
    ELSE IF Len(clauses) = 1 THEN clauses[1]
    ELSE LET half == Len(clauses) \div 2
         IN Flatten(SubSeq(clauses, 1, half))
            \o Flatten(SubSeq(clauses, half + 1, Len(clauses)))

\* index of the first element of seq whose number of occurrences in seq is
\* largest: what max(d.keys(), key=d.get) returns for a dict filled in seq order
FirstMostFrequent(seq) ==
    LET counts == {<<x, Cardinality({j \in DOMAIN seq : seq[j] = x})>> :
                     x \in {seq[i] : i \in DOMAIN seq}}
        largest == CHOOSE n \in {p[2] : p \in counts} : \A p \in counts : p[2] <= n
        best == {p[1] : p \in {q \in counts : q[2] = largest}}
    IN Min({i \in DOMAIN seq : seq[i] \in best})

ZeroMetrics == [decisions |-> 0, backtracks |-> 0, unit_propagations |-> 0, conflicts |-> 0]

\* a reset that forgets the backtracks counter
reset_but_backtracks(m) ==
    [m EXCEPT !.decisions = 0, !.unit_propagations = 0, !.conflicts = 0]

\* a reset that leaves the counters as they are
reset_nothing(m) == m

\* SolverMetrics.reset
reset(m) ==
    [m EXCEPT !.decisions = 0, !.backtracks = 0, !.unit_propagations = 0, !.conflicts = 0]

\* ---------------------------------------------------------------- BaseDPLL
\* an assignment that keeps the negation of the literal in the clauses
Base_assign_literal_keeps_negation(clauses, lit) ==
    SelectSeq(clauses, LAMBDA c : ~InClause(lit, c))

\* BaseDPLL._assign_literal
Base_assign_literal(clauses, lit) ==
    LET kept == SelectSeq(clauses, LAMBDA c : ~InClause(lit, c))
    IN [i \in 1..Len(kept) |-> SelectSeq(kept[i], LAMBDA l : l # -lit)]

HasEmptyClause(clauses) == \E i \in DOMAIN clauses : Len(clauses[i]) = 0

RECURSIVE Base_up_for(_, _, _, _, _, _)
Base_up_for(units, i, clauses, a, n, changed) ==
    IF i > Len(units)
    THEN [conflict |-> FALSE, clauses |-> clauses, assignment |-> a, ups |-> n,
          changed |-> changed]
    ELSE LET lit == units[i][1]
             var == Abs(lit)
             value == Sgn(lit)
         IN IF a[var] # 0
            THEN IF a[var] # value
                 THEN [conflict |-> TRUE, clauses |-> clauses, assignment |-> a,
                       ups |-> n, changed |-> changed]
                 ELSE Base_up_for(units, i + 1, clauses, a, n, changed)
            ELSE LET a2 == [a EXCEPT ![var] = value]
                     c2 == Base_assign_literal(clauses, lit)
                 IN IF HasEmptyClause(c2)
                    THEN [conflict |-> TRUE, clauses |-> c2, assignment |-> a2,
                          ups |-> n + 1, changed |-> TRUE]
                    ELSE Base_up_for(units, i + 1, c2, a2, n + 1, TRUE)

\* a propagation that stops after one sweep over the unit clauses
Base_up_once(clauses, a, n) ==
    LET units == SelectSeq(clauses, LAMBDA c : Len(c) = 1)
        r == Base_up_for(units, 1, clauses, a, n, FALSE)
    IN [conflict |-> r.conflict, clauses |-> r.clauses,
        assignment |-> r.assignment, ups |-> r.ups]

RECURSIVE Base_up_while(_, _, _)
Base_up_while(clauses, a, n) ==
    LET units == SelectSeq(clauses, LAMBDA c : Len(c) = 1)
    IN IF Len(units) = 0
       THEN [conflict |-> FALSE, clauses |-> clauses, assignment |-> a, ups |-> n]
       ELSE LET r == Base_up_for(units, 1, clauses, a, n, FALSE)
            IN IF r.conflict \/ ~r.changed
               THEN [conflict |-> r.conflict, clauses |-> r.clauses,
                     assignment |-> r.assignment, ups |-> r.ups]
               ELSE Base_up_while(r.clauses, r.assignment, r.ups)

Base_unit_propagate(clauses, a) == Base_up_while(clauses, a, 0)

Base_find_pure_literal(clauses) ==
    LET lits == AllLits(clauses)
        positive == {l \in lits : l > 0}
        negative == {-l : l \in {x \in lits : ~(x > 0)}}
    IN IF positive \ negative # {} THEN Min(positive \ negative)
       ELSE IF negative \ positive # {} THEN -Min(negative \ positive)
       ELSE 0

Base_choose_variable(clauses) ==
    LET lits == Flatten(clauses)
    IN IF Len(lits) = 0 THEN 1 ELSE Abs(lits[FirstMostFrequent(lits)])

\* a model list that reads a variable without a value as true
Base_model_unassigned_true(a, n) == [v \in 1..n |-> IF a[v] = -1 THEN -v ELSE v]

\* the model list built at the end of BaseDPLL.solve, PreprocessingDPLL.solve
\* and CombinedDPLL.solve
Base_model(a, n) == [v \in 1..n |-> IF a[v] # 0 /\ a[v] = 1 THEN v ELSE -v]

\* ----------------------------------------------------- WatchedLiteralsDPLL
Lits(n) == {l \in (-n)..n : l # 0}

\* watches[lit] as filled by the clauses from index i on
Watched_watch_list(clauses, lit, i) ==
    Flatten([k \in 1..(Len(clauses) - i + 1) |->
                LET j == i + k - 1
                    c == clauses[j]
                IN (IF Len(c) >= 1 /\ c[1] = lit THEN <<j>> ELSE <<>>)
                   \o (IF Len(c) >= 2 /\ c[2] = lit THEN <<j>> ELSE <<>>)])

Watched_initialize_watches(clauses, n) ==
    [lit \in Lits(n) |-> Watched_watch_list(clauses, lit, 1)]

Watched_is_unit_clause(clause, a) ==
    /\ \A i \in DOMAIN clause : ~LitTrue(clause[i], a)
    /\ Cardinality({i \in DOMAIN clause : LitUnassigned(clause[i], a)}) = 1

Watched_is_conflicting(clause, a) ==
    \A i \in DOMAIN clause : ~LitUnassigned(clause[i], a) /\ ~LitTrue(clause[i], a)

Watched_get_unit_literal(clause, a) ==
    IF \E i \in DOMAIN clause : LitUnassigned(clause[i], a)
    THEN clause[Min({i \in DOMAIN clause : LitUnassigned(clause[i], a)})]
    ELSE 0

RECURSIVE Watched_scan_watchers(_, _, _, _, _)
Watched_scan_watchers(ws, i, queue, clauses, a) ==
    IF i > Len(ws) THEN [conflict |-> FALSE, queue |-> queue]
    ELSE IF Watched_is_unit_clause(clauses[ws[i]], a)
         THEN Watched_scan_watchers(ws, i + 1, Append(queue, ws[i]), clauses, a)
         ELSE IF Watched_is_conflicting(clauses[ws[i]], a)
              THEN [conflict |-> TRUE, queue |-> queue]
              ELSE Watched_scan_watchers(ws, i + 1, queue, clauses, a)

\* the while loop of _unit_propagate; queued collects every clause index
\* the queue has held
RECURSIVE Watched_up_loop(_, _, _, _, _, _)
Watched_up_loop(queue, clauses, watches, a, n, queued) ==
    IF Len(queue) = 0 THEN [ok |-> TRUE, assignment |-> a, ups |-> n, queued |-> queued]
    ELSE LET unit_lit == Watched_get_unit_literal(clauses[Head(queue)], a)
             var == Abs(unit_lit)
             value == Sgn(unit_lit)
         IN IF unit_lit = 0
            THEN Watched_up_loop(Tail(queue), clauses, watches, a, n, queued)
            ELSE IF a[var] # 0
                 THEN IF a[var] # value
                      THEN [ok |-> FALSE, assignment |-> a, ups |-> n, queued |-> queued]
                      ELSE Watched_up_loop(Tail(queue), clauses, watches, a, n, queued)
                 ELSE LET a2 == [a EXCEPT ![var] = value]
                          s == Watched_scan_watchers(watches[-unit_lit], 1,
                                                     Tail(queue), clauses, a2)
                      IN IF s.conflict
                         THEN [ok |-> FALSE, assignment |-> a2, ups |-> n + 1,
                               queued |-> queued \cup SeqRange(s.queue)]
                         ELSE Watched_up_loop(s.queue, clauses, watches, a2, n + 1,
                                              queued \cup SeqRange(s.queue))

Watched_unit_propagate(clauses, watches, a) ==
    LET all == [i \in 1..Len(clauses) |-> i]
        queue == SelectSeq(all, LAMBDA i : Watched_is_unit_clause(clauses[i], a))
    IN Watched_up_loop(queue, clauses, watches, a, 0, SeqRange(queue))

\* a _save_state that saves an assignment without any variable
Watched_save_state_empty(a) == [v \in DOMAIN a |-> 0]

\* _save_state: the contents of a new dict, the copy of the assignment
Watched_save_state(a) == a

Watched_choose_variable(clauses, a) ==
    LET open == SelectSeq(clauses,
                   LAMBDA c : ~(\E i \in DOMAIN c : a[Abs(c[i])] # 0 /\ LitTrue(c[i], a)))
        lits == SelectSeq(Flatten(open), LAMBDA l : LitUnassigned(l, a))
        vars == [i \in 1..Len(lits) |-> Abs(lits[i])]
    IN IF Len(vars) = 0 THEN 0 ELSE vars[FirstMostFrequent(vars)]

Watched_model(a, n) == [v \in 1..n |-> IF a[v] = 1 THEN v ELSE -v]

\* ------------------------------------------------------- PreprocessingDPLL
\* the clause-simplifying loop of _exhaustive_unit_propagation: it stops with a
\* conflict at the first clause that does not contain lit and is left empty
Pre_simplify_conflict(clauses, lit) ==
    \E i \in DOMAIN clauses :
        /\ ~InClause(lit, clauses[i])
        /\ Len(SelectSeq(clauses[i], LAMBDA l : l # -lit)) = 0

RECURSIVE Pre_up_for(_, _, _, _, _, _)
Pre_up_for(units, i, clauses, a, n, changed) ==
    IF i > Len(units)
    THEN [conflict |-> FALSE, clauses |-> clauses, assignment |-> a, ups |-> n,
          changed |-> changed]
    ELSE LET lit == units[i][1]
             var == Abs(lit)
             value == Sgn(lit)
         IN IF a[var] # 0
            THEN IF a[var] # value
                 THEN [conflict |-> TRUE, clauses |-> clauses, assignment |-> a,
                       ups |-> n, changed |-> changed]
                 ELSE Pre_up_for(units, i + 1, clauses, a, n, changed)
            ELSE LET a2 == [a EXCEPT ![var] = value]
                 IN IF Pre_simplify_conflict(clauses, lit)
                    THEN [conflict |-> TRUE, clauses |-> clauses, assignment |-> a2,
                          ups |-> n + 1, changed |-> TRUE]
                    ELSE Pre_up_for(units, i + 1, Base_assign_literal(clauses, lit),
                                    a2, n + 1, TRUE)

RECURSIVE Pre_up_while(_, _, _)
Pre_up_while(clauses, a, n) ==
    LET units == SelectSeq(clauses, LAMBDA c : Len(c) = 1)
    IN IF Len(units) = 0
       THEN [conflict |-> FALSE, clauses |-> clauses, assignment |-> a, ups |-> n]
       ELSE LET r == Pre_up_for(units, 1, clauses, a, n, FALSE)
            IN IF r.conflict \/ ~r.changed
               THEN [conflict |-> r.conflict, clauses |-> r.clauses,
                     assignment |-> r.assignment, ups |-> r.ups]
               ELSE Pre_up_while(r.clauses, r.assignment, r.ups)

Pre_exhaustive_unit_propagation(clauses, n) ==
    Pre_up_while(clauses, EmptyAssignment(n), 0)

\* assignment.update(other): the keys of other overwrite
DictUpdate(a, other) == [v \in DOMAIN a |-> IF other[v] # 0 THEN other[v] ELSE a[v]]

Pre_pure_literal_elimination(clauses, a) ==
    LET lits == AllLits(clauses)
        positive == {l \in lits : l > 0}
        negative == {-l : l \in {x \in lits : ~(x > 0)}}
        pure_lits == {v \in positive : v \notin negative}
                       \cup {-v : v \in {x \in negative : x \notin positive}}
    IN [clauses |-> SelectSeq(clauses, LAMBDA c : \A l \in pure_lits : ~InClause(l, c)),
        assignment |-> [v \in DOMAIN a |-> IF v \in pure_lits THEN 1
                                            ELSE IF -v \in pure_lits THEN -1
                                            ELSE a[v]]]

\* a subsumption test with the subset relation the wrong way round
Pre_is_subsumed_reversed(clauses, i) ==
    \E j \in DOMAIN clauses : i # j /\ LitSet(clauses[i]) \subseteq LitSet(clauses[j])

Pre_is_subsumed(clauses, i) ==
    \E j \in DOMAIN clauses : i # j /\ LitSet(clauses[j]) \subseteq LitSet(clauses[i])

Pre_subsumption_elimination(clauses) ==
    LET idx == SelectSeq([i \in 1..Len(clauses) |-> i],
                         LAMBDA i : ~Pre_is_subsumed(clauses, i))
    IN [clauses |-> [k \in 1..Len(idx) |-> clauses[idx[k]]],
        eliminated |-> Len(clauses) - Len(idx)]

\* the elements of seq that are not in seen, each once, in the order of their
\* first occurrence
FirstOccurrences(seq, seen) ==
    LET idx == SelectSeq([k \in 1..Len(seq) |-> k],
                         LAMBDA k : /\ seq[k] \notin seen
                                    /\ \A m \in 1..(k - 1) : seq[m] # seq[k])
    IN [k \in 1..Len(idx) |-> seq[idx[k]]]

\* the clause index i, once for every position of clause i that holds lit
Pre_occurrences(clauses, lit, i) ==
    Flatten([k \in 1..(Len(clauses) - i + 1) |->
                LET j == i + k - 1
                IN [q \in 1..Cardinality({p \in DOMAIN clauses[j] : clauses[j][p] = lit})
                      |-> j]])

\* var_occurrences as the list of its items, in the dict's insertion order
Pre_var_occurrences(clauses) ==
    LET lits == Flatten(clauses)
        order == FirstOccurrences([k \in 1..Len(lits) |-> Abs(lits[k])], {})
    IN [k \in 1..Len(order) |->
          [var |-> order[k],
           pos |-> Pre_occurrences(clauses, order[k], 1),
           neg |-> Pre_occurrences(clauses, -order[k], 1)]]

\* clauses[i] for i in occ['pos'] or occ['neg'] raises IndexError
Pre_bve_index_error(clauses, occ) ==
    \E i \in SeqRange(occ.pos) \cup SeqRange(occ.neg) : i > Len(clauses)

Pre_bve_eliminates(occ) == Len(occ.pos) * Len(occ.neg) <= MaxNewClauses

Pre_bve_remaining(clauses, occ) ==
    LET idx == SelectSeq([i \in 1..Len(clauses) |-> i],
                         LAMBDA i : i \notin SeqRange(occ.pos) /\ i \notin SeqRange(occ.neg))
    IN [k \in 1..Len(idx) |-> clauses[idx[k]]]

\* the sets `resolvent` of the two nested loops, in their order
Pre_bve_all_resolvents(clauses, occ) ==
    LET np == Len(occ.pos)
        nn == Len(occ.neg)
    IN [k \in 1..(np * nn) |->
          (LitSet(clauses[occ.pos[((k - 1) \div nn) + 1]])
             \cup LitSet(clauses[occ.neg[((k - 1) % nn) + 1]]))
          \ {occ.var, -occ.var}]

\* those of them that pass the `if resolvent:` test
Pre_bve_resolvents(clauses, occ) ==
    SelectSeq(Pre_bve_all_resolvents(clauses, occ), LAMBDA r : r # {})

\* the loops resolve a clause that holds var with a clause that holds -var,
\* and `resolvent` is the empty set
Pre_bve_empty_resolvent(clauses, occ) ==
    \E p \in SeqRange(occ.pos), n \in SeqRange(occ.neg) :
        /\ occ.var \in LitSet(clauses[p])
        /\ -occ.var \in LitSet(clauses[n])
        /\ (LitSet(clauses[p]) \cup LitSet(clauses[n])) \ {occ.var, -occ.var} = {}

\* list(s) of a set s: the order of iteration over a set is not specified
ListsOfSet(s) ==
    {q \in [1..Cardinality(s) -> s] : \A i, j \in DOMAIN q : i # j => q[i] # q[j]}

RECURSIVE ListsOfSets(_)
ListsOfSets(sets) ==
    IF Len(sets) = 0 THEN {<<>>}
    ELSE {<<h>> \o t : h \in ListsOfSet(Head(sets)), t \in ListsOfSets(Tail(sets))}

\* ------------------------------------------------------------------ encoder
\* the dataclass Variable
Variable(row, col, val, neg) == [row |-> row, col |-> col, val |-> val, neg |-> neg]

\* a numbering whose rows advance by N instead of N * N
map_variable_short_stride(N, var) ==
    LET num == var.row * N + var.col * N + var.val
    IN IF var.neg THEN -num ELSE num

\* a numbering that counts the values from 0
map_variable_from_zero(N, var) ==
    LET num == var.row * N * N + var.col * N + var.val - 1
    IN IF var.neg THEN -num ELSE num

\* map_variable of one Variable for a grid of N rows
map_variable(N, var) ==
    LET num == var.row * N * N + var.col * N + var.val
    IN IF var.neg THEN -num ELSE num

\* map_variable of a tuple of Variables
map_clause(N, clause) == [k \in 1..Len(clause) |-> map_variable(N, clause[k])]

\* int(N ** 0.5)
IntSqrt(N) == CHOOSE n \in 0..N : n * n <= N /\ (n + 1) * (n + 1) > N

\* pairs whose inner loop starts at a instead of a + 1
PairsOf_from_same(lo, hi) ==
    Flatten([a \in 1..(hi - lo + 1) |->
                [b \in 1..(hi - (lo + a - 1) + 1) |-> <<lo + a - 1, lo + a - 2 + b>>]])

\* the pairs (a, b) with lo <= a < b <= hi, in the order of the two nested
\* loops `for a in range(..): for b in range(a + 1, ..)`
PairsOf(lo, hi) ==
    Flatten([a \in 1..(hi - lo + 1) |->
                [b \in 1..(hi - (lo + a - 1)) |-> <<lo + a - 1, lo + a - 1 + b>>]])

\* sudoku_grid[i][j] with j in range(N) raises IndexError: a row is too short
GridIndexError(grid) == \E i \in DOMAIN grid : Len(grid[i]) < Len(grid)

generate_model(grid) ==
    LET N == Len(grid)
    IN Flatten([k \in 1..(N * N) |->
          LET i == (k - 1) \div N
              j == (k - 1) % N
          IN IF grid[i + 1][j + 1] = 0 THEN <<>>
             ELSE << <<Variable(i, j, grid[i + 1][j + 1], FALSE)>> >>])

generate_rule1_one_per_cell(N) ==
    Flatten([k \in 1..(N * N) |->
       LET i == (k - 1) \div N
           j == (k - 1) % N
           pairs == PairsOf(1, N)
       IN << [v \in 1..N |-> Variable(i, j, v, FALSE)] >>
          \o [p \in 1..Len(pairs) |->
                <<Variable(i, j, pairs[p][1], TRUE), Variable(i, j, pairs[p][2], TRUE)>>]])

generate_rule2_row_constraint(N) ==
    Flatten([k \in 1..(N * N) |->
       LET r == (k - 1) \div N
           v == ((k - 1) % N) + 1
           pairs == PairsOf(0, N - 1)
       IN << [c \in 1..N |-> Variable(r, c - 1, v, FALSE)] >>
          \o [p \in 1..Len(pairs) |->
                <<Variable(r, pairs[p][1], v, TRUE), Variable(r, pairs[p][2], v, TRUE)>>]])

generate_rule3_col_constraint(N) ==
    Flatten([k \in 1..(N * N) |->
       LET c == (k - 1) \div N
           v == ((k - 1) % N) + 1
           pairs == PairsOf(0, N - 1)
       IN << [r \in 1..N |-> Variable(r - 1, c, v, FALSE)] >>
          \o [p \in 1..Len(pairs) |->
                <<Variable(pairs[p][1], c, v, TRUE), Variable(pairs[p][2], c, v, TRUE)>>]])

\* the cells of box (box_row, box_col), n cells a side
BoxCells(n, box_row, box_col) ==
    [m \in 1..(n * n) |-> <<box_row * n + ((m - 1) \div n), box_col * n + ((m - 1) % n)>>]

generate_rule4_box_constraint(N) ==
    LET n == IntSqrt(N)
    IN Flatten([k \in 1..(n * n * N) |->
          LET box == (k - 1) \div N
              v == ((k - 1) % N) + 1
              cells == BoxCells(n, box \div n, box % n)
              pairs == PairsOf(1, Len(cells))
          IN << [m \in 1..Len(cells) |-> Variable(cells[m][1], cells[m][2], v, FALSE)] >>
             \o [p \in 1..Len(pairs) |->
                   <<Variable(cells[pairs[p][1]][1], cells[pairs[p][1]][2], v, TRUE),
                     Variable(cells[pairs[p][2]][1], cells[pairs[p][2]][2], v, TRUE)>>]])

\* the list `adjacent` of cell (i, j): top, bottom, left, right
Adjacent(N, i, j) ==
    (IF i > 0 THEN << <<i - 1, j>> >> ELSE <<>>)
    \o (IF i < N - 1 THEN << <<i + 1, j>> >> ELSE <<>>)
    \o (IF j > 0 THEN << <<i, j - 1>> >> ELSE <<>>)
    \o (IF j < N - 1 THEN << <<i, j + 1>> >> ELSE <<>>)

generate_rule5_non_consecutive(N) ==
    Flatten([k \in 1..(N * N * N) |->
       LET i == (k - 1) \div (N * N)
           j == ((k - 1) \div N) % N
           v == ((k - 1) % N) + 1
           adjacent == Adjacent(N, i, j)
       IN Flatten([a \in 1..Len(adjacent) |->
             (IF v > 1
              THEN << <<Variable(i, j, v, TRUE),
                        Variable(adjacent[a][1], adjacent[a][2], v - 1, TRUE)>> >>
              ELSE <<>>)
             \o (IF v < N
                 THEN << <<Variable(i, j, v, TRUE),
                           Variable(adjacent[a][1], adjacent[a][2], v + 1, TRUE)>> >>
                 ELSE <<>>)])])

\* SATSolver.encode: (clauses, num_vars)
encode(grid) ==
    LET N == Len(grid)
        all == generate_model(grid)
                 \o generate_rule1_one_per_cell(N)
                 \o generate_rule2_row_constraint(N)
                 \o generate_rule3_col_constraint(N)
                 \o generate_rule4_box_constraint(N)
                 \o generate_rule5_non_consecutive(N)
    IN [clauses |-> [k \in 1..Len(all) |-> map_clause(N, all[k])],
        num_vars |-> N * N * N]

\* ------------------------------------------------------------------ factory
\* the dict `solvers` of get_solver: the class for each name
Solvers ==
    [base |-> "BaseDPLL", watched |-> "WatchedLiteralsDPLL",
     preprocessing |-> "PreprocessingDPLL", combined |-> "CombinedDPLL"]

\* a factory that falls back to BaseDPLL for a name it does not know
get_solver_with_default(name) ==
    IF name \notin DOMAIN Solvers THEN "BaseDPLL" ELSE Solvers[name]

\* the class get_solver constructs for the name, or the error it raises
get_solver(name) ==
    IF name \notin DOMAIN Solvers THEN "ValueError" ELSE Solvers[name]

\* ------------------------------------------------------------------- state
VARIABLES
    grid,            \* sudoku_grid read from the puzzle file, <<>> without a puzzle
    enc,             \* how the call of to_cnf ended, "none" before it
    family,          \* which family of inputs this run draws its CNFs from
    num_vars,        \* num_vars passed to get_solver
    cnfs,            \* the CNFs the driver solves, each with every variant
    jobs,            \* the (variant, cnf) calls the driver has still to make
    results,         \* what the calls made so far returned or raised
    pc,              \* where the current solver is in its life
    variant,         \* the name given to get_solver
    solver,          \* the class of the object get_solver returned
    cnf,             \* index in cnfs of the clauses given to get_solver
    calls,           \* how many times solve() of that object has been entered
    metrics,         \* .metrics of the PreprocessingDPLL or CombinedDPLL object
    assignment,      \* .assignment of the PreprocessingDPLL or CombinedDPLL object
    pre_ups,         \* preprocessor.metrics.unit_propagations in CombinedDPLL.solve
    pre_assignment,  \* preprocessor.assignment in CombinedDPLL.solve
    stats,           \* vars_eliminated, clauses_eliminated of the object running _preprocess
    cstats,          \* vars_eliminated, clauses_eliminated of the CombinedDPLL object
    pre_clauses,     \* the local `clauses` of _preprocess
    pre_none,        \* _preprocess returned None
    bve_occ,         \* var_occurrences.items() of _bounded_variable_elimination
    bve_i,           \* position of its loop over them
    bve_empty,       \* that loop has resolved {v} with {-v}: an empty `resolvent`
    pre_calls,       \* how many times _preprocess has been entered in this solve()
    smetrics,        \* .metrics of the BaseDPLL or WatchedLiteralsDPLL object
    sclauses,        \* .clauses of the BaseDPLL or WatchedLiteralsDPLL object
    s_assignment,    \* .assignment of the BaseDPLL object
    watches,         \* .watches of the WatchedLiteralsDPLL object
    heap,            \* the dict objects the WatchedLiteralsDPLL object has created
    cur,             \* which of them its .assignment refers to
    stack,           \* the active _dpll calls, innermost last
    ret,             \* value returned by the _dpll call that ended last
    status,          \* status returned by solve(), or the exception it raised
    model,           \* model returned by solve()
    has_model        \* FALSE when that model is None

VARIABLES
    config,          \* the ExperimentConfig and the manifest of the driver's runs
    csv_file,        \* raw_results.csv: whether it exists, and its lines
    runs,            \* how many times run_experiments has been started
    run,             \* where run_experiments is, "stopped" outside of it
    completed_runs,  \* the set load_completed_runs returned to this run
    pending,         \* the submitted tasks whose future has not been taken yet
    saving,          \* `result` of save_result_to_csv
    file_exists      \* `file_exists` of save_result_to_csv

encVars == <<grid, enc>>
runVars == <<config, csv_file, runs, run, completed_runs, pending, saving, file_exists>>
driverVars == <<encVars, family, num_vars, cnfs, jobs, results, runVars>>
outerVars == <<metrics, assignment, pre_ups, pre_assignment, stats, cstats>>
preVars == <<pre_clauses, pre_none, bve_occ, bve_i, bve_empty, pre_calls>>
searchVars == <<smetrics, sclauses, s_assignment, watches, heap, cur, stack, ret>>
resultVars == <<status, model, has_model>>
vars == <<driverVars, pc, variant, solver, cnf, calls, outerVars, preVars, searchVars, resultVars>>

Variants == <<"base", "watched", "preprocessing", "combined">>
IsBaseSearch == solver \in {"BaseDPLL", "PreprocessingDPLL"}
IsWatchedSearch == solver \in {"WatchedLiteralsDPLL", "CombinedDPLL"}
IsOuter == solver \in {"PreprocessingDPLL", "CombinedDPLL"}

\* solver.metrics of the solver get_solver returned
SolverMetrics == IF IsOuter THEN metrics ELSE smetrics

ZeroStats == [vars_eliminated |-> 0, clauses_eliminated |-> 0]
CallFrame(clauses, a) ==
    [pc |-> "call", clauses |-> clauses, assignment |-> a, var |-> 0, saved |-> 0]

\* ------------------------------------------------------------------ inputs
\* the clauses over variables 1..n with at most one literal per variable, in
\* ascending variable order (the empty clause among them)
RECURSIVE ClausePool(_)
ClausePool(n) ==
    IF n = 0 THEN {<<>>}
    ELSE LET shorter == ClausePool(n - 1)
         IN shorter \cup {Append(c, n) : c \in shorter} \cup {Append(c, -n) : c \in shorter}

RECURSIVE SeqsUpTo(_, _)
SeqsUpTo(S, k) ==
    IF k = 0 THEN {<<>>}
    ELSE LET shorter == SeqsUpTo(S, k - 1)
         IN shorter \cup {Append(q, x) : q \in {r \in shorter : Len(r) = k - 1}, x \in S}

\* CNFs of any shape: up to MaxClauses clauses over NumVars variables
GeneralCNFs == SeqsUpTo(ClausePool(NumVars), MaxClauses)

\* CNFs of two clauses over n variables
PairCNFs(n) == {<<c, d>> : c \in ClausePool(n), d \in ClausePool(n)}

\* the unit chain {1}, {-1,2}, {-2,3}, ..., {-(k-1),k}
Chain(k) == [i \in 1..k |-> IF i = 1 THEN <<1>> ELSE <<-(i - 1), i>>]

\* the four clauses over two variables, together unsatisfiable, in any order
SquareCNFs ==
    LET four == {<<1, 2>>, <<1, -2>>, <<-1, 2>>, <<-1, -2>>}
    IN {q \in [1..4 -> four] : \A i, j \in 1..4 : i # j => q[i] # q[j]}

\* the eight clauses over three variables, together unsatisfiable: each
\* variable has 4 x 4 resolvents, more than max_new_clauses
CubeCNF ==
    [i \in 1..8 |-> <<IF (i - 1) \div 4 = 0 THEN 1 ELSE -1,
                      IF ((i - 1) \div 2) % 2 = 0 THEN 2 ELSE -2,
                      IF (i - 1) % 2 = 0 THEN 3 ELSE -3>>]

\* the cube, or the cube without one of its clauses (satisfiable), alone or
\* after the unit clause of a fourth variable
CubeCNFs ==
    LET cubes == {CubeCNF} \cup {SelectSeq(CubeCNF, LAMBDA c : c # CubeCNF[m]) : m \in 1..8}
    IN cubes \cup {<<<<4>>>> \o F : F \in cubes}

\* two different clauses over variables 1 and 2, then a clause over 1 and 2
\* with 3 added and one with -3 added
MixedCNFs ==
    LET two == {<<1, 2>>, <<1, -2>>, <<-1, 2>>, <<-1, -2>>}
        all == {<<a, b, Append(c, 3), Append(d, -3)>> : a \in two, b \in two, c \in two, d \in two}
    IN {F \in all : F[1] # F[2]}

\* {a,3}, {b,3} for a literal a of variable 1 and a literal b of variable 2,
\* then the four clauses over variables 1 and 2, in any order, each with -3
\* added: with 3 true they are the unsatisfiable four
NestedCNFs ==
    {<<<<a, 3>>, <<b, 3>>>> \o [i \in 1..4 |-> Append(F[i], -3)] :
        a \in {1, -1}, b \in {2, -2}, F \in SquareCNFs}

Reverse(c) == [i \in 1..Len(c) |-> c[Len(c) + 1 - i]]

\* the clauses over variables 1..n that hold x and -x for some x, next to
\* each other, before at most one literal per other variable
Tautologies(n) ==
    {<<x, -x>> \o SelectSeq(c, LAMBDA l : Abs(l) # Abs(x)) :
        x \in Lits(n), c \in ClausePool(n)}

\* the driver's tasks: every CNF with every variant
RECURSIVE Tasks(_, _)
Tasks(ncnf, i) ==
    IF i > ncnf THEN <<>>
    ELSE [k \in 1..Len(Variants) |-> [variant |-> Variants[k], cnf |-> i]]
         \o Tasks(ncnf, i + 1)

\* no run of the experiment driver: the solvers are called on their own
NoResult == [puzzle_id |-> 0, variant |-> "", repetition |-> 0, status |-> ""]

NoRun ==
    /\ config = [puzzles |-> {}, variants |-> <<>>, num_repetitions |-> 0]
    /\ csv_file = [exists |-> FALSE, lines |-> <<>>]
    /\ runs = 0
    /\ run = "stopped"
    /\ completed_runs = {}
    /\ pending = {}
    /\ saving = NoResult
    /\ file_exists = FALSE

\* no solver object yet
NoSolver ==
    /\ pc = "idle"
    /\ variant = "none"
    /\ solver = "none"
    /\ cnf = 0
    /\ calls = 0
    /\ metrics = ZeroMetrics
    /\ assignment = <<>>
    /\ pre_ups = 0
    /\ pre_assignment = <<>>
    /\ stats = ZeroStats
    /\ cstats = ZeroStats
    /\ pre_clauses = <<>>
    /\ pre_none = FALSE
    /\ bve_occ = <<>>
    /\ bve_i = 0
    /\ bve_empty = FALSE
    /\ pre_calls = 0
    /\ smetrics = ZeroMetrics
    /\ sclauses = <<>>
    /\ s_assignment = <<>>
    /\ watches = <<>>
    /\ heap = <<>>
    /\ cur = 0
    /\ stack = <<>>
    /\ ret = "none"
    /\ status = "none"
    /\ model = <<>>
    /\ has_model = FALSE

Idle == NoSolver /\ NoRun

InitWith(fam, n, cs) ==
    /\ grid = <<>>
    /\ enc = "none"
    /\ family = fam
    /\ num_vars = n
    /\ cnfs = cs
    /\ jobs = Tasks(Len(cs), 1)
    /\ results = <<>>
    /\ Idle

InitGeneral == \E F \in GeneralCNFs : InitWith("general", NumVars, <<F>>)
InitPair == \E F \in PairCNFs(WideVars) : InitWith("pair", WideVars, <<F>>)
InitChain == \E k \in 1..MaxChain : InitWith("chain", k, <<Chain(k)>>)
InitSquare == \E F \in SquareCNFs : InitWith("square", 2, <<F>>)

\* a CNF without an empty clause, and the same CNF with a further copy of one
\* of its clauses, the literals of the copy in the same or in the opposite order
InitDuplicate ==
    \E F \in {G \in PairCNFs(WideVars) : ~HasEmptyClause(G)} : \E i \in 1..Len(F) : \E copy \in {F[i], Reverse(F[i])} :
        InitWith("duplicate", WideVars, <<F, Append(F, copy)>>)

\* a CNF without an empty clause, and the same CNF with a further clause that
\* holds both x and -x
InitTautology ==
    \E F \in {G \in GeneralCNFs : ~HasEmptyClause(G)} : \E t \in Tautologies(NumVars) :
        InitWith("tautology", NumVars, <<F, Append(F, t)>>)

\* a clause of two or more literals, a clause of some but not all of its
\* literals, and at most one further clause, which has every variable
InitSubsumed ==
    \E big \in {c \in ClausePool(WideVars) : Len(c) >= 2} :
        \E small \in {d \in ClausePool(WideVars) :
                        LitSet(d) \subseteq LitSet(big) /\ LitSet(d) # LitSet(big)} :
            \E rest \in SeqsUpTo({c \in ClausePool(WideVars) : Len(c) = WideVars}, 1) :
                InitWith("subsumed", WideVars, <<<<big, small>> \o rest>>)

\* a run that starts from a puzzle file: the CNF comes from to_cnf
InitGridWith(fam, g) ==
    /\ grid = g
    /\ enc = "none"
    /\ family = fam
    /\ num_vars = 0
    /\ cnfs = <<>>
    /\ jobs = <<>>
    /\ results = <<>>
    /\ Idle

ZeroGrid(rows, cols) == [i \in 1..rows |-> [j \in 1..cols |-> 0]]

\* the N x N grids with one clue
OneClueGrids(N) ==
    {[ZeroGrid(N, N) EXCEPT ![i][j] = v] : i \in 1..N, j \in 1..N, v \in 1..N}

IsPerfectSquare(N) == IntSqrt(N) * IntSqrt(N) = N

\* files of any shape: rows x cols zeros, and square grids with one clue
InitGrid ==
    \E g \in {ZeroGrid(rows, cols) : rows \in 1..MaxN, cols \in 1..MaxN}
              \cup UNION {OneClueGrids(N) : N \in 1..MaxN} :
        InitGridWith("grid", g)

\* puzzles: the empty N x N grids, N a perfect square
InitPuzzle ==
    \E N \in {n \in 1..MaxN : IsPerfectSquare(n)} : InitGridWith("puzzle", ZeroGrid(N, N))

InitCube == \E F \in CubeCNFs : InitWith("cube", 4, <<F>>)

InitMixed == \E F \in MixedCNFs : InitWith("mixed", 3, <<F>>)

\* a clause that holds every variable, after or before unit clauses of some of
\* the variables, in ascending order of the variables
InitUnits ==
    \E wide \in {c \in ClausePool(WideVars) : Len(c) = WideVars} :
        \E c \in ClausePool(WideVars) : \E first \in BOOLEAN :
            LET units == [i \in 1..Len(c) |-> <<c[i]>>]
            IN InitWith("units", WideVars,
                        <<IF first THEN <<wide>> \o units ELSE units \o <<wide>>>>)

\* a configuration whose variants are the two solvers without preprocessing
InitNested ==
    \E F \in NestedCNFs :
        /\ grid = <<>>
        /\ enc = "none"
        /\ family = "nested"
        /\ num_vars = 3
        /\ cnfs = <<F>>
        /\ jobs = SelectSeq(Tasks(1, 1), LAMBDA job : job.variant \in {"base", "watched"})
        /\ results = <<>>
        /\ Idle

InitBranching == InitNested \/ InitSquare \/ InitCube \/ InitPair

InitPasses == InitPair \/ InitChain \/ InitSquare \/ InitCube \/ InitMixed

Init == InitGeneral \/ InitPair \/ InitChain \/ InitSquare

\* ----------------------------------------------------------------- actions
\* the driver obtains the solver of its next task: get_solver and the
\* constructor of the class it selects
\* to_cnf(puzzle_path) of run_single_experiment: SATSolver(path).encode(). The
\* clauses it returns are the same for every task of the puzzle
ToCnf ==
    /\ pc = "idle"
    /\ enc = "none"
    /\ Len(grid) > 0
    /\ IF GridIndexError(grid)
       THEN /\ enc' = "IndexError"
            /\ UNCHANGED <<num_vars, cnfs, jobs>>
       ELSE /\ enc' = "returned"
            /\ cnfs' = <<encode(grid).clauses>>
            /\ num_vars' = encode(grid).num_vars
            /\ jobs' = Tasks(1, 1)
    /\ UNCHANGED <<grid, family, results, runVars, pc, variant, solver, cnf, calls, outerVars, preVars, searchVars,
                   resultVars>>

GetSolver ==
    /\ pc = "idle"
    /\ Len(jobs) > 0
    /\ LET job == Head(jobs)
           clauses == cnfs[job.cnf]
           class == get_solver(job.variant)
       IN /\ variant' = job.variant
          /\ cnf' = job.cnf
          /\ calls' = 0
          /\ jobs' = Tail(jobs)
          /\ IF class = "ValueError"
             THEN /\ status' = "ValueError"
                  /\ pc' = "returned"
                  /\ UNCHANGED <<solver, metrics, assignment, stats, cstats, smetrics,
                                 sclauses, s_assignment, watches, heap, cur, model,
                                 has_model>>
             ELSE /\ solver' = class
                  /\ metrics' = ZeroMetrics
                  /\ assignment' = EmptyAssignment(num_vars)
                  /\ stats' = ZeroStats
                  /\ cstats' = ZeroStats
                  /\ smetrics' = ZeroMetrics
                  /\ sclauses' = IF class \in {"BaseDPLL", "WatchedLiteralsDPLL"}
                                 THEN clauses ELSE <<>>
                  /\ s_assignment' = IF class = "BaseDPLL"
                                     THEN EmptyAssignment(num_vars) ELSE <<>>
                  /\ watches' = IF class = "WatchedLiteralsDPLL"
                                THEN Watched_initialize_watches(clauses, num_vars) ELSE <<>>
                  /\ heap' = IF class = "WatchedLiteralsDPLL"
                             THEN <<EmptyAssignment(num_vars)>> ELSE <<>>
                  /\ cur' = IF class = "WatchedLiteralsDPLL" THEN 1 ELSE 0
                  /\ pc' = "constructed"
                  /\ UNCHANGED resultVars
    /\ UNCHANGED <<encVars, family, num_vars, cnfs, results, runVars, pre_ups, pre_assignment,
                   preVars, stack, ret>>

\* solve() up to its first call of _dpll or of _exhaustive_unit_propagation
EnterSolve ==
    /\ calls' = calls + 1
    /\ bve_empty' = FALSE
    /\ pre_calls' = IF IsOuter THEN 1 ELSE 0
    /\ IF IsOuter
       THEN /\ metrics' = reset(metrics)
            /\ pre_clauses' = cnfs[cnf]
            /\ pre_ups' = 0
            /\ pre_assignment' = IF solver = "CombinedDPLL"
                                 THEN EmptyAssignment(num_vars) ELSE <<>>
            /\ stats' = IF solver = "CombinedDPLL" THEN ZeroStats ELSE stats
            /\ pc' = "pre_up"
            /\ UNCHANGED <<smetrics, stack>>
       ELSE /\ smetrics' = reset(smetrics)
            /\ stack' = <<CallFrame(IF solver = "BaseDPLL" THEN sclauses ELSE <<>>,
                                    IF solver = "BaseDPLL" THEN s_assignment ELSE <<>>)>>
            /\ pc' = "search"
            /\ UNCHANGED <<metrics, pre_clauses, pre_ups, pre_assignment, stats>>
    /\ UNCHANGED <<driverVars, variant, solver, cnf, assignment, cstats, pre_none, bve_occ, bve_i,
                   sclauses, s_assignment, watches, heap, cur, ret, resultVars>>

Solve ==
    /\ pc = "constructed"
    /\ EnterSolve

\* a caller that keeps the solver calls solve() again after it returned
SolveAgain ==
    /\ pc = "returned"
    /\ status \in {"SAT", "UNSAT"}
    /\ 0 < calls /\ calls < MaxCalls
    /\ EnterSolve

\* _preprocess, step 1: _exhaustive_unit_propagation and the update of
\* self.assignment
PreUnitPropagation ==
    /\ pc = "pre_up"
    /\ LET r == Pre_exhaustive_unit_propagation(pre_clauses, num_vars)
       IN /\ IF solver = "PreprocessingDPLL"
             THEN /\ metrics' = [metrics EXCEPT !.unit_propagations = @ + r.ups]
                  /\ assignment' = IF r.conflict THEN assignment
                                   ELSE DictUpdate(assignment, r.assignment)
                  /\ UNCHANGED <<pre_ups, pre_assignment>>
             ELSE /\ pre_ups' = pre_ups + r.ups
                  /\ pre_assignment' = IF r.conflict THEN pre_assignment
                                       ELSE DictUpdate(pre_assignment, r.assignment)
                  /\ UNCHANGED <<metrics, assignment>>
          /\ pre_none' = r.conflict
          /\ pre_clauses' = IF r.conflict THEN pre_clauses ELSE r.clauses
          /\ pc' = IF r.conflict THEN "pre_done" ELSE "pre_pure"
    /\ UNCHANGED <<driverVars, variant, solver, cnf, calls, stats, cstats, bve_occ, bve_i, bve_empty,
                   pre_calls, searchVars,
                   resultVars>>

\* _preprocess, step 2
PrePureLiterals ==
    /\ pc = "pre_pure"
    /\ LET r == Pre_pure_literal_elimination(
                   pre_clauses,
                   IF solver = "PreprocessingDPLL" THEN assignment ELSE pre_assignment)
       IN /\ IF solver = "PreprocessingDPLL"
             THEN assignment' = r.assignment /\ UNCHANGED pre_assignment
             ELSE pre_assignment' = r.assignment /\ UNCHANGED assignment
          /\ pre_clauses' = r.clauses
    /\ pc' = "pre_sub"
    /\ UNCHANGED <<driverVars, variant, solver, cnf, calls, metrics, pre_ups, stats, cstats, pre_none,
                   bve_occ, bve_i, bve_empty, pre_calls, searchVars, resultVars>>

\* _preprocess, step 3
PreSubsumption ==
    /\ pc = "pre_sub"
    /\ LET r == Pre_subsumption_elimination(pre_clauses)
       IN /\ pre_clauses' = r.clauses
          /\ stats' = [stats EXCEPT !.clauses_eliminated = @ + r.eliminated]
    /\ pc' = "pre_bve"
    /\ UNCHANGED <<driverVars, variant, solver, cnf, calls, metrics, assignment, pre_ups, pre_assignment,
                   cstats, pre_none, bve_occ, bve_i, bve_empty, pre_calls, searchVars,
                   resultVars>>

\* _bounded_variable_elimination up to its loop over the variables
PreCountOccurrences ==
    /\ pc = "pre_bve"
    /\ bve_occ' = Pre_var_occurrences(pre_clauses)
    /\ bve_i' = 1
    /\ pc' = IF Len(Pre_var_occurrences(pre_clauses)) = 0 THEN "pre_done" ELSE "pre_var"
    /\ UNCHANGED <<driverVars, variant, solver, cnf, calls, outerVars, pre_clauses, pre_none, bve_empty,
                   pre_calls, searchVars,
                   resultVars>>

\* one round of the loop of _bounded_variable_elimination over the variables
PreEliminateVariable ==
    /\ pc = "pre_var"
    /\ LET occ == bve_occ[bve_i]
           last == bve_i = Len(bve_occ)
       IN IF Pre_bve_index_error(pre_clauses, occ)
          THEN /\ status' = "IndexError"
               /\ pc' = "returned"
               /\ UNCHANGED <<pre_clauses, stats, bve_i, bve_empty>>
          ELSE /\ IF Pre_bve_eliminates(occ)
                  THEN /\ stats' = [stats EXCEPT !.vars_eliminated = @ + 1]
                       /\ \E added \in ListsOfSets(Pre_bve_resolvents(pre_clauses, occ)) :
                             pre_clauses' = Pre_bve_remaining(pre_clauses, occ) \o added
                       /\ bve_empty' = (bve_empty \/ Pre_bve_empty_resolvent(pre_clauses, occ))
                  ELSE UNCHANGED <<pre_clauses, stats, bve_empty>>
               /\ bve_i' = bve_i + 1
               /\ pc' = IF last THEN "pre_done" ELSE "pre_var"
               /\ UNCHANGED status
    /\ UNCHANGED <<driverVars, variant, solver, cnf, calls, metrics, assignment, pre_ups, pre_assignment,
                   cstats, pre_none, bve_occ, pre_calls, searchVars, model, has_model>>

\* _preprocess is run again on the clause list it returned
PreprocessAgain ==
    /\ pc = "pre_done"
    /\ ~pre_none
    /\ pre_calls < MaxPasses
    /\ pre_calls' = pre_calls + 1
    /\ pc' = "pre_up"
    /\ UNCHANGED <<driverVars, variant, solver, cnf, calls, outerVars, pre_clauses, pre_none,
                   bve_occ, bve_i, bve_empty, searchVars, resultVars>>

\* PreprocessingDPLL.solve and CombinedDPLL.solve from the return of
\* _preprocess to the first _dpll call of the solver they delegate to
PreReturn ==
    /\ pc = "pre_done"
    /\ LET a == IF solver = "CombinedDPLL" THEN DictUpdate(assignment, pre_assignment)
                ELSE assignment
       IN /\ assignment' = a
          /\ metrics' = IF solver = "CombinedDPLL"
                        THEN [metrics EXCEPT !.unit_propagations = @ + pre_ups]
                        ELSE metrics
          /\ cstats' = IF solver = "CombinedDPLL" THEN stats ELSE cstats
          /\ IF pre_none
             THEN /\ status' = "UNSAT"
                  /\ model' = <<>>
                  /\ has_model' = FALSE
                  /\ pc' = "returned"
                  /\ UNCHANGED searchVars
             ELSE IF Len(pre_clauses) = 0
             THEN /\ status' = "SAT"
                  /\ model' = Base_model(a, num_vars)
                  /\ has_model' = TRUE
                  /\ pc' = "returned"
                  /\ UNCHANGED searchVars
             ELSE /\ sclauses' = pre_clauses
                  /\ smetrics' = ZeroMetrics
                  /\ IF solver = "PreprocessingDPLL"
                     THEN /\ s_assignment' = a
                          /\ stack' = <<CallFrame(pre_clauses, a)>>
                          /\ UNCHANGED <<watches, heap, cur>>
                     ELSE /\ watches' = Watched_initialize_watches(pre_clauses, num_vars)
                          /\ heap' = <<a>>
                          /\ cur' = 1
                          /\ stack' = <<CallFrame(<<>>, <<>>)>>
                          /\ UNCHANGED s_assignment
                  /\ pc' = "search"
                  /\ UNCHANGED <<ret, resultVars>>
    /\ UNCHANGED <<driverVars, variant, solver, cnf, calls, pre_ups, pre_assignment, stats, preVars>>

\* ------------------------------------------------------------------ search
Top == stack[Len(stack)]
Pop == SubSeq(stack, 1, Len(stack) - 1)
SetTop(frame) == [stack EXCEPT ![Len(stack)] = frame]

\* a _dpll call ends: its frame goes, its caller sees value
Return(value) ==
    /\ stack' = Pop
    /\ ret' = value
    /\ UNCHANGED <<pc, resultVars>>

\* a _dpll call makes a nested _dpll call; the interpreter raises
\* RecursionError when the calls nest too deep, and nothing catches it in
\* solve(). The interpreter's limit is far above the num_vars + 1 calls a
\* search that assigns a new variable at every call can nest; here it is
\* RecursionLimit calls above num_vars
Call(waiting, frame) ==
    IF Len(stack) >= num_vars + RecursionLimit
    THEN /\ status' = "RecursionError"
         /\ pc' = "returned"
         /\ stack' = <<>>
         /\ ret' = "none"
         /\ UNCHANGED <<model, has_model>>
    ELSE /\ stack' = Append(SetTop(waiting), frame)
         /\ ret' = "none"
         /\ UNCHANGED <<pc, resultVars>>

\* BaseDPLL._dpll from its entry to its return or to its first nested call
BaseDpllCall ==
    /\ pc = "search"
    /\ IsBaseSearch
    /\ Len(stack) > 0
    /\ Top.pc = "call"
    /\ LET r == Base_unit_propagate(Top.clauses, Top.assignment)
           propagated == [smetrics EXCEPT !.unit_propagations = @ + r.ups]
           pure_lit == Base_find_pure_literal(r.clauses)
           var == Base_choose_variable(r.clauses)
       IN IF r.conflict
          THEN /\ smetrics' = [propagated EXCEPT !.conflicts = @ + 1]
               /\ Return("false")
               /\ UNCHANGED s_assignment
          ELSE IF Len(r.clauses) = 0
          THEN /\ smetrics' = propagated
               /\ s_assignment' = r.assignment
               /\ Return("true")
          ELSE IF pure_lit # 0
          THEN /\ smetrics' = propagated
               /\ Call([Top EXCEPT !.pc = "pure", !.clauses = r.clauses,
                                   !.assignment = r.assignment],
                       CallFrame(Base_assign_literal(r.clauses, pure_lit),
                                 [r.assignment EXCEPT ![Abs(pure_lit)] = Sgn(pure_lit)]))
               /\ UNCHANGED s_assignment
          ELSE /\ smetrics' = [propagated EXCEPT !.decisions = @ + 1]
               /\ Call([Top EXCEPT !.pc = "pos", !.clauses = r.clauses,
                                   !.assignment = r.assignment, !.var = var],
                       CallFrame(Base_assign_literal(r.clauses, var),
                                 [r.assignment EXCEPT ![var] = 1]))
               /\ UNCHANGED s_assignment
    /\ UNCHANGED <<driverVars, variant, solver, cnf, calls, outerVars, preVars, sclauses, watches, heap, cur>>

\* BaseDPLL._dpll after a nested call has returned
BaseDpllReturn ==
    /\ pc = "search"
    /\ IsBaseSearch
    /\ Len(stack) > 0
    /\ Top.pc \in {"pure", "pos", "neg"}
    /\ ret # "none"
    /\ IF Top.pc = "pos" /\ ret = "false"
       THEN /\ smetrics' = [smetrics EXCEPT !.backtracks = @ + 1]
            /\ Call([Top EXCEPT !.pc = "neg"],
                    CallFrame(Base_assign_literal(Top.clauses, -Top.var),
                              [Top.assignment EXCEPT ![Top.var] = -1]))
       ELSE /\ Return(ret)
            /\ UNCHANGED smetrics
    /\ UNCHANGED <<driverVars, variant, solver, cnf, calls, outerVars, preVars, sclauses, s_assignment,
                   watches, heap, cur>>

\* WatchedLiteralsDPLL._dpll from its entry to its return or to its first
\* nested call
WatchedDpllCall ==
    /\ pc = "search"
    /\ IsWatchedSearch
    /\ Len(stack) > 0
    /\ Top.pc = "call"
    /\ LET r == Watched_unit_propagate(sclauses, watches, heap[cur])
           propagated == [smetrics EXCEPT !.unit_propagations = @ + r.ups]
           var == Watched_choose_variable(sclauses, r.assignment)
       IN IF ~r.ok
          THEN /\ smetrics' = [propagated EXCEPT !.conflicts = @ + 1]
               /\ heap' = [heap EXCEPT ![cur] = r.assignment]
               /\ Return("false")
          ELSE IF NumAssigned(r.assignment) = num_vars \/ var = 0
          THEN /\ smetrics' = propagated
               /\ heap' = [heap EXCEPT ![cur] = r.assignment]
               /\ Return("true")
          ELSE /\ smetrics' = [propagated EXCEPT !.decisions = @ + 1]
               /\ heap' = Append([heap EXCEPT ![cur] = [r.assignment EXCEPT ![var] = 1]],
                                 Watched_save_state(r.assignment))
               /\ Call([Top EXCEPT !.pc = "pos", !.var = var, !.saved = Len(heap) + 1,
                                   !.assignment = r.assignment],
                       CallFrame(<<>>, <<>>))
    /\ UNCHANGED <<driverVars, variant, solver, cnf, calls, outerVars, preVars, sclauses, s_assignment,
                   watches, cur>>

\* WatchedLiteralsDPLL._dpll after a nested call has returned; the frame of a
\* node keeps in .saved which dict saved_state refers to and in .assignment
\* what that dict held when _save_state returned
WatchedDpllReturn ==
    /\ pc = "search"
    /\ IsWatchedSearch
    /\ Len(stack) > 0
    /\ Top.pc \in {"pos", "neg"}
    /\ ret # "none"
    /\ IF ret = "true"
       THEN /\ Return("true")
            /\ UNCHANGED <<smetrics, heap, cur>>
       ELSE IF Top.pc = "pos"
       THEN /\ cur' = Top.saved
            /\ smetrics' = [smetrics EXCEPT !.backtracks = @ + 1]
            /\ heap' = [heap EXCEPT ![Top.saved] = [@ EXCEPT ![Top.var] = -1]]
            /\ Call([Top EXCEPT !.pc = "neg"], CallFrame(<<>>, <<>>))
       ELSE /\ cur' = Top.saved
            /\ Return("false")
            /\ UNCHANGED <<smetrics, heap>>
    /\ UNCHANGED <<driverVars, variant, solver, cnf, calls, outerVars, preVars, sclauses, s_assignment,
                   watches>>

\* the outermost _dpll call has returned: the rest of solve() of the searching
\* solver and, after it, of the PreprocessingDPLL or CombinedDPLL that called it
SolveReturn ==
    /\ pc = "search"
    /\ Len(stack) = 0
    /\ ret # "none"
    /\ status' = IF ret = "true" THEN "SAT" ELSE "UNSAT"
    /\ has_model' = (ret = "true")
    /\ model' = IF ret # "true" THEN <<>>
                ELSE IF IsBaseSearch THEN Base_model(s_assignment, num_vars)
                ELSE Watched_model(heap[cur], num_vars)
    /\ metrics' = IF IsOuter
                  THEN [decisions |-> smetrics.decisions,
                        backtracks |-> smetrics.backtracks,
                        unit_propagations |-> metrics.unit_propagations
                                                + smetrics.unit_propagations,
                        conflicts |-> smetrics.conflicts]
                  ELSE metrics
    /\ pc' = "returned"
    /\ UNCHANGED <<driverVars, variant, solver, cnf, calls, assignment, pre_ups, pre_assignment, stats,
                   cstats, preVars, searchVars>>

\* the driver keeps what the call gave and drops the solver
Finish ==
    /\ pc = "returned"
    /\ results' = Append(results, [variant |-> variant, cnf |-> cnf, status |-> status,
                                   model |-> model, has_model |-> has_model,
                                   metrics |-> SolverMetrics])
    /\ pc' = "idle"
    /\ variant' = "none"
    /\ solver' = "none"
    /\ cnf' = 0
    /\ calls' = 0
    /\ metrics' = ZeroMetrics
    /\ assignment' = <<>>
    /\ pre_ups' = 0
    /\ pre_assignment' = <<>>
    /\ stats' = ZeroStats
    /\ cstats' = ZeroStats
    /\ pre_clauses' = <<>>
    /\ pre_none' = FALSE
    /\ bve_occ' = <<>>
    /\ bve_i' = 0
    /\ bve_empty' = FALSE
    /\ pre_calls' = 0
    /\ smetrics' = ZeroMetrics
    /\ sclauses' = <<>>
    /\ s_assignment' = <<>>
    /\ watches' = <<>>
    /\ heap' = <<>>
    /\ cur' = 0
    /\ stack' = <<>>
    /\ ret' = "none"
    /\ status' = "none"
    /\ model' = <<>>
    /\ has_model' = FALSE
    /\ UNCHANGED <<encVars, family, num_vars, cnfs, jobs, runVars>>

\* names a configuration may list that get_solver does not know
UnknownNames == {"cdcl", "Base", ""}

\* a CNF (the four clauses over two variables, or a unit chain) and a
\* configuration that lists one unknown name among the four variants, at any
\* place of the list
InitNames ==
    \E in \in {<<2, F>> : F \in SquareCNFs} \cup {<<k, Chain(k)>> : k \in 1..MaxChain} :
    \E name \in UnknownNames : \E p \in 0..Len(Variants) :
        /\ grid = <<>>
        /\ enc = "none"
        /\ family = "names"
        /\ num_vars = in[1]
        /\ cnfs = <<in[2]>>
        /\ jobs = SubSeq(Tasks(1, 1), 1, p) \o <<[variant |-> name, cnf |-> 1]>>
                  \o SubSeq(Tasks(1, 1), p + 1, Len(Variants))
        /\ results = <<>>
        /\ Idle

\* ------------------------------------------------- the experiment driver
\* the variant names of the configurations: two that get_solver knows and
\* one, with a carriage return in it, that it does not know
VariantNames == {"base", "watched", "a\rb"}

\* a field written by csv.DictWriter to a file opened with newline='' and read
\* back by csv.DictReader from a file opened in text mode, where the universal
\* newlines of open() turn a carriage return into a line feed
csv_read(field) == IF field = "a\rb" THEN "a\nb" ELSE field

\* the header line DictWriter.writeheader writes, and a line of writerow
Header == [kind |-> "header", puzzle_id |-> 0, variant |-> "", repetition |-> 0, status |-> ""]
Row(result) ==
    [kind |-> "row", puzzle_id |-> result.puzzle_id, variant |-> result.variant,
     repetition |-> result.repetition, status |-> result.status]

\* the key load_completed_runs builds from a row the DictReader gives it
ReadKey(line) ==
    [puzzle_id |-> line.puzzle_id, variant |-> csv_read(line.variant),
     repetition |-> line.repetition]

\* load_completed_runs: the DictReader takes the first line for the field
\* names; a first line that is a row gives no field 'puzzle_id', and a later
\* line that is a header gives int('puzzle_id')
load_completed_runs(f) ==
    IF ~f.exists \/ Len(f.lines) = 0 THEN [raised |-> "none", completed |-> {}]
    ELSE IF f.lines[1].kind # "header"
    THEN [raised |-> IF Len(f.lines) = 1 THEN "none" ELSE "KeyError", completed |-> {}]
    ELSE IF \E i \in 2..Len(f.lines) : f.lines[i].kind = "header"
    THEN [raised |-> "ValueError", completed |-> {}]
    ELSE [raised |-> "none", completed |-> {ReadKey(f.lines[i]) : i \in 2..Len(f.lines)}]

\* generate_experiment_tasks, each task by the three fields of its key
generate_experiment_tasks(c) ==
    {[puzzle_id |-> id, variant |-> c.variants[k], repetition |-> r] :
        id \in c.puzzles, k \in DOMAIN c.variants, r \in 1..c.num_repetitions}

\* the statuses of the results run_with_timeout can return for a variant
Statuses(name) ==
    IF get_solver(name) = "ValueError" THEN {"ERROR"} ELSE {"SAT", "TIMEOUT"}

\* one puzzle in the manifest, one or two different variant names
InitDriver ==
    \E vs \in {<<a>> : a \in VariantNames}
              \cup {<<a, b>> : a \in VariantNames, b \in VariantNames} :
    \E n \in 1..MaxRepetitions :
        /\ \A i, j \in DOMAIN vs : i # j => vs[i] # vs[j]
        /\ config = [puzzles |-> {1}, variants |-> vs, num_repetitions |-> n]
        /\ csv_file = [exists |-> FALSE, lines |-> <<>>]
        /\ runs = 0
        /\ run = "stopped"
        /\ completed_runs = {}
        /\ pending = {}
        /\ saving = NoResult
        /\ file_exists = FALSE
        /\ grid = <<>>
        /\ enc = "none"
        /\ family = "driver"
        /\ num_vars = 0
        /\ cnfs = <<>>
        /\ jobs = <<>>
        /\ results = <<>>
        /\ NoSolver

solverVars ==
    <<encVars, family, num_vars, cnfs, jobs, results, pc, variant, solver, cnf, calls,
      outerVars, preVars, searchVars, resultVars>>

\* run_experiments from its start to the submission of the tasks to run
StartRun ==
    /\ run = "stopped"
    /\ runs < MaxRuns
    /\ runs' = runs + 1
    /\ LET loaded == load_completed_runs(csv_file)
           all_tasks == generate_experiment_tasks(config)
           tasks_to_run == {task \in all_tasks : task \notin loaded.completed}
       IN IF loaded.raised # "none"
          THEN UNCHANGED <<run, completed_runs, pending>>
          ELSE /\ completed_runs' = loaded.completed
               /\ pending' = tasks_to_run
               /\ run' = IF tasks_to_run = {} THEN "stopped" ELSE "collecting"
    /\ UNCHANGED <<config, csv_file, saving, file_exists, solverVars>>

\* as_completed yields a future whose result() returns: save_result_to_csv up
\* to the opening of the file for appending, which creates it
FutureResult ==
    /\ run = "collecting"
    /\ \E task \in pending : \E st \in Statuses(task.variant) :
        /\ pending' = pending \ {task}
        /\ saving' = [puzzle_id |-> task.puzzle_id, variant |-> task.variant,
                      repetition |-> task.repetition, status |-> st]
    /\ file_exists' = csv_file.exists
    /\ csv_file' = [csv_file EXCEPT !.exists = TRUE]
    /\ run' = "opened"
    /\ UNCHANGED <<config, runs, completed_runs, solverVars>>

\* save_result_to_csv: the header, when the file did not exist
SaveHeader ==
    /\ run = "opened"
    /\ csv_file' = IF file_exists THEN csv_file
                   ELSE [csv_file EXCEPT !.lines = Append(@, Header)]
    /\ run' = "header_done"
    /\ UNCHANGED <<config, runs, completed_runs, pending, saving, file_exists, solverVars>>

\* save_result_to_csv: the row, and back to the loop over the futures
SaveRow ==
    /\ run = "header_done"
    /\ csv_file' = [csv_file EXCEPT !.lines = Append(@, Row(saving))]
    /\ saving' = NoResult
    /\ run' = "collecting"
    /\ UNCHANGED <<config, runs, completed_runs, pending, file_exists, solverVars>>

\* as_completed yields a future whose result() raises: the error is logged
FutureFails ==
    /\ run = "collecting"
    /\ \E task \in pending : pending' = pending \ {task}
    /\ UNCHANGED <<config, csv_file, runs, run, completed_runs, saving, file_exists, solverVars>>

\* every future has been taken: run_experiments returns
EndRun ==
    /\ run = "collecting"
    /\ pending = {}
    /\ run' = "stopped"
    /\ UNCHANGED <<config, csv_file, runs, completed_runs, pending, saving, file_exists, solverVars>>

\* KeyboardInterrupt in the driver: what was written stays in the file, every
\* result not yet saved is lost
Interrupt ==
    /\ run \in {"collecting", "opened", "header_done"}
    /\ run' = "stopped"
    /\ pending' = {}
    /\ saving' = NoResult
    /\ UNCHANGED <<config, csv_file, runs, completed_runs, file_exists, solverVars>>

NextDriver ==
    \/ StartRun
    \/ FutureResult
    \/ SaveHeader
    \/ SaveRow
    \/ FutureFails
    \/ EndRun
    \/ Interrupt

Next ==
    \/ GetSolver
    \/ Solve
    \/ PreUnitPropagation
    \/ PrePureLiterals
    \/ PreSubsumption
    \/ PreCountOccurrences
    \/ PreEliminateVariable
    \/ PreReturn
    \/ BaseDpllCall
    \/ BaseDpllReturn
    \/ WatchedDpllCall
    \/ WatchedDpllReturn
    \/ SolveReturn
    \/ Finish

Spec == Init /\ [][Next]_vars
SpecNames == InitNames /\ [][Next]_vars
SpecMixed == InitMixed /\ [][Next]_vars
SpecUnits == (InitUnits \/ InitSquare) /\ [][Next]_vars
SpecBranching == InitBranching /\ [][Next]_vars

\* the solvers when _preprocess is applied again to what it returned
NextPasses == PreprocessAgain \/ Next
SpecPasses == InitPasses /\ [][NextPasses]_vars

\* the solver objects under a caller that may call solve() more than once
NextAgain == SolveAgain \/ Next
InitAgain == InitPair \/ InitChain \/ InitSquare \/ InitCube
SpecAgain == InitAgain /\ [][NextAgain]_vars
SpecDuplicate == InitDuplicate /\ [][Next]_vars
SpecTautology == InitTautology /\ [][Next]_vars
SpecSubsumed == InitSubsumed /\ [][Next]_vars

\* the encoder alone, and the driver from the puzzle file on
NextPuzzle == ToCnf \/ Next
SpecEncoder == InitGrid /\ [][ToCnf]_vars
SpecPuzzle == InitPuzzle /\ [][NextPuzzle]_vars

\* the experiment driver run, interrupted and run again on one results directory
SpecDriver == InitDriver /\ [][NextDriver]_vars

\* ------------------------------------------------------------------ claims
\* solve() has returned a status (it has not raised)
Returned == pc = "returned" /\ status \in {"SAT", "UNSAT"}

\* the model list m gives some literal of the clause its polarity
Satisfies(m, clause) == \E i \in DOMAIN clause : m[Abs(clause[i])] = clause[i]
SatisfiesAll(m, clauses) == \A i \in DOMAIN clauses : Satisfies(m, clauses[i])

\* the dict the returned model was read from
ReadAssignment ==
    IF IsOuter /\ Len(pre_clauses) = 0 THEN assignment
    ELSE IF IsBaseSearch THEN s_assignment
    ELSE heap[cur]

\* unit propagation alone refutes the CNF, which has no empty clause
UnitRefuted(clauses) ==
    /\ ~HasEmptyClause(clauses)
    /\ Base_unit_propagate(clauses, EmptyAssignment(num_vars)).conflict

\* a SAT answer whose model leaves a clause of the CNF without a true literal
WrongModel(r, clauses) == r.status = "SAT" /\ ~SatisfiesAll(r.model, clauses)

\* the answers of one variant to the first and to the second CNF of the run
Paired(i, j) ==
    /\ results[i].variant = results[j].variant
    /\ results[i].cnf = 1
    /\ results[j].cnf = 2

BothReturned(i, j) ==
    /\ results[i].status \in {"SAT", "UNSAT"}
    /\ results[j].status \in {"SAT", "UNSAT"}

\* C1: when solve() of any variant returns ("SAT", M) on a CNF (here: one
\* without an empty clause), every clause of the CNF has a literal to which M
\* gives its polarity.
C1_ModelSatisfiesInput ==
    (pc = "returned" /\ status = "SAT" /\ ~HasEmptyClause(cnfs[cnf]))
    => SatisfiesAll(model, cnfs[cnf])

\* C2: any two variants that have solved the same CNF (here: one without an
\* empty clause) returned the same status.
C2_SameStatus ==
    \A i, j \in DOMAIN results :
        (/\ results[i].cnf = results[j].cnf
         /\ ~HasEmptyClause(cnfs[results[i].cnf])
         /\ BothReturned(i, j))
        => results[i].status = results[j].status

\* C3: solve() of every variant ends by returning SAT or UNSAT; it never
\* ends with an exception (here: on a CNF without an empty clause).
C3_NeverRaises ==
    (pc = "returned" /\ ~HasEmptyClause(cnfs[cnf])) => status \in {"SAT", "UNSAT"}

\* C4: the _dpll calls never nest deeper than num_vars + 1, and solve()
\* never dies of too deep a recursion.
C4_DepthBounded == Len(stack) <= num_vars + 1 /\ status # "RecursionError"

\* C5: on a CNF with an empty clause solve() of every variant returns UNSAT.
C5_EmptyClauseUnsat ==
    (pc = "returned" /\ HasEmptyClause(cnfs[cnf])) => status = "UNSAT"

\* C6: with a further copy of one of its clauses a CNF gets the same status
\* from each variant, and no SAT model that leaves a clause of the CNF
\* unsatisfied unless the variant gave such a model without the copy too.
C6_DuplicateTolerant ==
    \A i, j \in DOMAIN results :
        (family = "duplicate" /\ Paired(i, j))
        => /\ BothReturned(i, j) => results[i].status = results[j].status
           /\ ~WrongModel(results[i], cnfs[1]) => ~WrongModel(results[j], cnfs[1])

\* C7: with a further clause that holds both x and -x a CNF gets the same
\* status from each variant, and no SAT model that leaves a clause of the CNF
\* unsatisfied unless the variant gave such a model without that clause too.
C7_TautologyTolerant ==
    \A i, j \in DOMAIN results :
        (family = "tautology" /\ Paired(i, j))
        => /\ BothReturned(i, j) => results[i].status = results[j].status
           /\ ~WrongModel(results[i], cnfs[1]) => ~WrongModel(results[j], cnfs[1])

\* C8: a SAT answer comes with a list of num_vars integers, the v-th being v
\* or -v, and -v when the search left v unassigned; an UNSAT answer comes
\* with None.
C8_ModelShape ==
    pc = "returned" =>
        /\ status = "SAT" =>
              /\ has_model
              /\ Len(model) = num_vars
              /\ \A v \in 1..num_vars :
                    /\ model[v] \in {v, -v}
                    /\ ReadAssignment[v] = 0 => model[v] = -v
        /\ status = "UNSAT" => ~has_model

\* a SAT answer with a variable the search left unassigned
C8_Witness ==
    /\ Returned
    /\ status = "SAT"
    /\ \E v \in 1..num_vars : ReadAssignment[v] = 0 /\ model[v] = -v

\* C9: on a CNF that unit propagation alone refutes, {{1},{-1}} among them,
\* every variant returns UNSAT and has counted at least one conflict.
C9_RefutationCountsConflict ==
    (pc = "returned" /\ UnitRefuted(cnfs[cnf]))
    => (status = "UNSAT" /\ SolverMetrics.conflicts >= 1)

\* C10: on the unit chain of k clauses every variant returns SAT with the
\* model 1, 2, ..., k, and BaseDPLL has made no decision and at least k - 1
\* unit propagations.
C10_UnitChain ==
    (family = "chain" /\ pc = "returned") =>
        /\ status = "SAT"
        /\ model = [v \in 1..num_vars |-> v]
        /\ variant = "base" =>
              /\ smetrics.decisions = 0
              /\ smetrics.unit_propagations >= num_vars - 1

\* BaseDPLL has solved the longest chain
C10_Witness ==
    /\ family = "chain"
    /\ Returned
    /\ variant = "base"
    /\ num_vars = MaxChain
    /\ smetrics.unit_propagations >= MaxChain - 1

\* the literal set of clause j of the list is a proper subset of that of clause i
StrictSuperset(clauses, i, j) ==
    LitSet(clauses[j]) \subseteq LitSet(clauses[i]) /\ LitSet(clauses[j]) # LitSet(clauses[i])

HasClause(clauses, lits) == \E k \in DOMAIN clauses : LitSet(clauses[k]) = lits

\* the first two passes of _preprocess have nothing to do: no unit clause, and
\* every variable that occurs does so in both polarities
NoUnitNoPure(clauses) ==
    /\ \A i \in DOMAIN clauses : Len(clauses[i]) # 1
    /\ Base_find_pure_literal(clauses) = 0

\* the clause set _preprocess holds between its third and its fourth pass
BeforeBVE == pc = "pre_bve"

SquareGrid(g) == \A i \in DOMAIN g : Len(g[i]) = Len(g)

ValuesInRange(g) == \A i \in DOMAIN g : \A j \in DOMAIN g[i] : g[i][j] \in 0..Len(g)

ValidGrid(g) == SquareGrid(g) /\ IsPerfectSquare(Len(g)) /\ ValuesInRange(g)

\* the values model m gives to cell (r, c) of an N x N grid, r and c from 0
Decoded(m, N, r, c) == {v \in 1..N : m[map_variable(N, Variable(r, c, v, FALSE))] > 0}

\* m gives every cell of the list exactly the values 1..N, each once
EachValueOnce(m, N, cells) ==
    \A v \in 1..N :
        Cardinality({k \in DOMAIN cells : v \in Decoded(m, N, cells[k][1], cells[k][2])}) = 1

\* the grid decoded from m obeys the rules of the puzzle and keeps the clues of g
ValidDecoding(m, g) ==
    LET N == Len(g)
        n == IntSqrt(N)
        at(r, c) == CHOOSE v \in Decoded(m, N, r, c) : TRUE
    IN /\ \A r, c \in 0..(N - 1) : Cardinality(Decoded(m, N, r, c)) = 1
       /\ \A r \in 0..(N - 1) : EachValueOnce(m, N, [c \in 1..N |-> <<r, c - 1>>])
       /\ \A c \in 0..(N - 1) : EachValueOnce(m, N, [r \in 1..N |-> <<r - 1, c>>])
       /\ \A br, bc \in 0..(n - 1) : EachValueOnce(m, N, BoxCells(n, br, bc))
       /\ \A r, c \in 0..(N - 1) :
             \A k \in DOMAIN Adjacent(N, r, c) :
                LET d == at(r, c) - at(Adjacent(N, r, c)[k][1], Adjacent(N, r, c)[k][2])
                IN d # 1 /\ d # -1
       /\ \A r, c \in 0..(N - 1) : g[r + 1][c + 1] # 0 => at(r, c) = g[r + 1][c + 1]

\* C12: when a variant returns SAT on the CNF the encoder gives for a valid
\* puzzle grid, the grid decoded from the model has one value per cell, every
\* value once in each row, column and box, no two neighbouring cells whose
\* values differ by 1, and the clues of the puzzle.
C12_RoundTrip ==
    (pc = "returned" /\ status = "SAT" /\ Len(grid) > 0 /\ ValidGrid(grid))
    => ValidDecoding(model, grid)

\* C13: to_cnf returns no (clauses, num_vars) pair for a grid that is not
\* square or whose size is not a perfect square.
C13_InvalidGridRejected ==
    enc = "returned" => SquareGrid(grid) /\ IsPerfectSquare(Len(grid))

\* C14: for an N x N grid with values in 0..N every literal l the encoder
\* returns has 1 <= |l| <= N^3 (so none is 0), and num_vars is N^3.
C14_LiteralsInRange ==
    (enc = "returned" /\ SquareGrid(grid) /\ ValuesInRange(grid))
    => LET N == Len(grid)
       IN /\ num_vars = N * N * N
          /\ \A i \in DOMAIN cnfs[1] : \A k \in DOMAIN cnfs[1][i] :
                /\ cnfs[1][i][k] # 0
                /\ 1 <= Abs(cnfs[1][i][k])
                /\ Abs(cnfs[1][i][k]) <= N * N * N

C14_Witness ==
    /\ enc = "returned"
    /\ SquareGrid(grid)
    /\ ValuesInRange(grid)
    /\ Len(grid) = MaxN
    /\ \E i \in DOMAIN cnfs[1] : cnfs[1][i] = <<MaxN * MaxN * MaxN>>
    /\ \E i \in DOMAIN cnfs[1] : cnfs[1][i][1] = 1

\* C15: for a valid grid no clause the encoder returns holds a literal and
\* its negation, and none holds the same literal twice.
C15_NoTautologyNoRepeat ==
    (enc = "returned" /\ ValidGrid(grid))
    => \A i \in DOMAIN cnfs[1] : \A k, m \in DOMAIN cnfs[1][i] :
          k # m => Abs(cnfs[1][i][k]) # Abs(cnfs[1][i][m])

C15_Witness ==
    /\ enc = "returned"
    /\ ValidGrid(grid)
    /\ Len(grid) > 1
    /\ \E i \in DOMAIN grid : \E j \in DOMAIN grid[i] : grid[i][j] # 0
    /\ \E i \in DOMAIN cnfs[1] : Len(cnfs[1][i]) = Len(grid)
    /\ \E i \in DOMAIN cnfs[1] : Len(cnfs[1][i]) = 2 /\ cnfs[1][i][1] < 0

\* C16: get_solver constructs, for each of the names base, watched,
\* preprocessing and combined, the class of that name from the clauses and
\* num_vars it was given; for any other name it raises an error and no solver
\* is constructed.
Constructed ==
    /\ assignment = EmptyAssignment(num_vars)
    /\ metrics = ZeroMetrics
    /\ smetrics = ZeroMetrics
    /\ stats = ZeroStats

C16_FactoryDispatch ==
    /\ (variant = "base" /\ pc = "constructed")
            => /\ solver = "BaseDPLL"
               /\ Constructed
               /\ sclauses = cnfs[cnf]
               /\ s_assignment = EmptyAssignment(num_vars)
    /\ (variant = "watched" /\ pc = "constructed")
            => /\ solver = "WatchedLiteralsDPLL"
               /\ Constructed
               /\ sclauses = cnfs[cnf]
               /\ heap = <<EmptyAssignment(num_vars)>>
    /\ (variant = "preprocessing" /\ pc = "constructed")
            => solver = "PreprocessingDPLL" /\ Constructed
    /\ (variant = "combined" /\ pc = "constructed")
            => solver = "CombinedDPLL" /\ Constructed
    /\ variant \notin {"none", "base", "watched", "preprocessing", "combined"}
            => /\ solver = "none"
               /\ pc = "returned"
               /\ status = "ValueError"
               /\ sclauses = <<>>
               /\ assignment = <<>>
    /\ \A i \in 1..Len(results) :
           results[i].status = "ValueError"
               <=> results[i].variant \notin {"base", "watched", "preprocessing", "combined"}

\* an unknown name was refused after an earlier job of the list was solved
C16_Witness ==
    /\ status = "ValueError"
    /\ solver = "none"
    /\ \E i \in 1..Len(results) : results[i].status \in {"SAT", "UNSAT"}

\* C17: solve() begins by setting the four counters of its solver to zero, and
\* from then until it returns no counter of that solver decreases, the merge of
\* the inner solver's counters in PreprocessingDPLL and CombinedDPLL included.
NoCounterDecreases(before, after) ==
    /\ before.decisions <= after.decisions
    /\ before.backtracks <= after.backtracks
    /\ before.unit_propagations <= after.unit_propagations
    /\ before.conflicts <= after.conflicts

InsideSolve == pc \notin {"idle", "constructed", "returned"}

C17_CountersResetThenMonotone ==
    [][/\ (~InsideSolve /\ InsideSolve') => SolverMetrics' = ZeroMetrics
       /\ InsideSolve => NoCounterDecreases(SolverMetrics, SolverMetrics')]_vars

\* a second call on a PreprocessingDPLL or CombinedDPLL object has returned
\* through the merge, after a search that decided and propagated
C17_Witness ==
    /\ pc = "returned"
    /\ calls = 2
    /\ IsOuter
    /\ status \in {"SAT", "UNSAT"}
    /\ metrics.decisions > 0
    /\ metrics.conflicts > 0
    /\ metrics.unit_propagations > smetrics.unit_propagations
    /\ smetrics.unit_propagations > 0

\* C18: _subsumption_elimination removes a clause exactly when the literal set
\* of some other clause is a proper subset of its literal set (so clauses with
\* equal literal sets do not remove each other), and clauses_eliminated grows
\* by the number of clauses removed.
StrictlySubsumed(clauses, i) ==
    \E j \in DOMAIN clauses :
        /\ LitSet(clauses[j]) \subseteq LitSet(clauses[i])
        /\ LitSet(clauses[j]) # LitSet(clauses[i])

NotStrictlySubsumed(clauses) ==
    LET idx == SelectSeq([i \in 1..Len(clauses) |-> i],
                         LAMBDA i : ~StrictlySubsumed(clauses, i))
    IN [k \in 1..Len(idx) |-> clauses[idx[k]]]

C18_StrictSubsumptionOnly ==
    [][pc = "pre_sub"
          => /\ pre_clauses' = NotStrictlySubsumed(pre_clauses)
             /\ stats'.clauses_eliminated
                    = stats.clauses_eliminated + Len(pre_clauses) - Len(pre_clauses')]_vars

\* C19: when bounded variable elimination resolves a clause that holds v with
\* a clause that holds -v and the resolvent is empty, solve() of
\* PreprocessingDPLL and of CombinedDPLL returns UNSAT, never SAT.
C19_EmptyResolventUnsat ==
    (pc = "returned" /\ IsOuter /\ bve_empty /\ status \in {"SAT", "UNSAT"})
        => status = "UNSAT"

\* C20: every clause that bounded variable elimination adds is a
\* non-tautological resolvent: preprocessing removes clauses and literals and
\* adds clauses in the elimination only, so when no clause given to the solver
\* holds a literal and its negation, no clause does during or after the
\* elimination.
HoldsBoth(c) == \E i, j \in DOMAIN c : c[i] = -c[j]

C20_ResolventsNotTautological ==
    (/\ pc \in {"pre_var", "pre_done"}
     /\ \A i \in DOMAIN cnfs[cnf] : ~HoldsBoth(cnfs[cnf][i]))
        => \A k \in DOMAIN pre_clauses : ~HoldsBoth(pre_clauses[k])

\* C21: whenever bounded variable elimination eliminates a variable v, the
\* clauses it removes are exactly the clauses of the current set that hold v
\* or -v, every clause it adds is the resolvent of a clause holding v and a
\* clause holding -v, and the resulting set has no occurrence of v; also for
\* the second and later variables eliminated in one pass.
Mentions(c, v) == v \in LitSet(c) \/ -v \in LitSet(c)

IsResolventOn(c, clauses, v) ==
    \E p, n \in DOMAIN clauses :
        /\ v \in LitSet(clauses[p])
        /\ -v \in LitSet(clauses[n])
        /\ LitSet(c) = (LitSet(clauses[p]) \cup LitSet(clauses[n])) \ {v, -v}

EliminatesCleanly(before, after, v) ==
    LET kept == SelectSeq(before, LAMBDA c : ~Mentions(c, v))
    IN /\ Len(after) >= Len(kept)
       /\ SubSeq(after, 1, Len(kept)) = kept
       /\ \A k \in (Len(kept) + 1)..Len(after) : IsResolventOn(after[k], before, v)
       /\ \A k \in DOMAIN after : ~Mentions(after[k], v)

C21_EliminationRemovesVariable ==
    [][(pc = "pre_var" /\ stats'.vars_eliminated = stats.vars_eliminated + 1)
          => EliminatesCleanly(pre_clauses, pre_clauses', bve_occ[bve_i].var)]_vars

\* C22: the preprocessing pipeline is idempotent: when _preprocess is run
\* again on the clause list it returned, no step of the second run removes a
\* clause or forces an assignment.
InPreprocess == pc \in {"pre_up", "pre_pure", "pre_sub", "pre_bve", "pre_var"}

C22_PreprocessIdempotent ==
    [][(InPreprocess /\ pre_calls >= 2)
          => /\ pre_clauses' = pre_clauses
             /\ assignment' = assignment
             /\ pre_assignment' = pre_assignment
             /\ ~pre_none']_vars

\* C23: _unit_propagate of WatchedLiteralsDPLL never returns success while a
\* clause it had queued is fully falsified by the assignment it leaves, also
\* when the clause has three or more literals and the literal falsified last
\* is not one of the two it watches.
AtWatchedCall == pc = "search" /\ IsWatchedSearch /\ Len(stack) > 0 /\ Top.pc = "call"

C23_QueuedConflictFails ==
    AtWatchedCall
        => LET r == Watched_unit_propagate(sclauses, watches, heap[cur])
           IN r.ok => \A i \in r.queued : ~Watched_is_conflicting(sclauses[i], r.assignment)

\* C24: in WatchedLiteralsDPLL, when a decision node has failed with both
\* polarities and returns false, the assignment of the solver equals the
\* assignment saved just before the decision.
AtWatchedNode(polarity) ==
    /\ pc = "search"
    /\ IsWatchedSearch
    /\ Len(stack) > 0
    /\ Top.pc = polarity
    /\ ret = "false"

C24_RestoredAfterBothFail ==
    [][AtWatchedNode("neg") => heap'[cur'] = Top.assignment]_vars

\* C25: in WatchedLiteralsDPLL, at every decision node whose first branch
\* (v = true) has failed, the second branch starts from exactly the assignment
\* saved before the decision plus v = false, and backtracks grows by one at
\* that step and at no other step of the search.
InWatchedSearch == pc = "search" /\ IsWatchedSearch

C25_SecondBranchFromSaved ==
    [][/\ AtWatchedNode("pos")
           => /\ heap'[cur'] = [Top.assignment EXCEPT ![Top.var] = -1]
              /\ smetrics'.backtracks = smetrics.backtracks + 1
       /\ (InWatchedSearch /\ ~AtWatchedNode("pos"))
           => smetrics'.backtracks = smetrics.backtracks]_vars

\* the second branch of a node has just started, after a first branch in which
\* a nested node had backtracked and values had been propagated
C25_Witness ==
    /\ InWatchedSearch
    /\ Len(stack) >= 2
    /\ Top.pc = "call"
    /\ stack[Len(stack) - 1].pc = "neg"
    /\ heap[cur] = [stack[Len(stack) - 1].assignment
                       EXCEPT ![stack[Len(stack) - 1].var] = -1]
    /\ smetrics.backtracks >= 2
    /\ smetrics.unit_propagations >= 2
    /\ \A k \in 1..(Len(stack) - 2) : stack[k].pc = "pos"

\* C26: BaseDPLL is a correct decision procedure: for every CNF with no empty
\* clause and no repeated literal inside a clause, BaseDPLL.solve() returns,
\* and it returns SAT if and only if the CNF is satisfiable.
Satisfiable(clauses, n) ==
    \E a \in [1..n -> {-1, 1}] :
        \A i \in DOMAIN clauses : \E k \in DOMAIN clauses[i] : LitTrue(clauses[i][k], a)

NoRepeatedLiteral(clauses) ==
    \A i \in DOMAIN clauses : \A j, k \in DOMAIN clauses[i] :
        j # k => clauses[i][j] # clauses[i][k]

C26_BaseDecides ==
    (/\ pc = "returned"
     /\ solver = "BaseDPLL"
     /\ ~HasEmptyClause(cnfs[cnf])
     /\ NoRepeatedLiteral(cnfs[cnf]))
        => /\ status \in {"SAT", "UNSAT"}
           /\ status = "SAT" <=> Satisfiable(cnfs[cnf], num_vars)

\* BaseDPLL has refuted a CNF after a first branch in which a nested node had
\* backtracked
C26_Witness ==
    /\ pc = "returned"
    /\ solver = "BaseDPLL"
    /\ ~HasEmptyClause(cnfs[cnf])
    /\ status = "UNSAT"
    /\ smetrics.backtracks >= 2
    /\ smetrics.conflicts >= 3

\* C27: UNSAT answers are sound for every variant: if solve() of
\* WatchedLiteralsDPLL, PreprocessingDPLL or CombinedDPLL returns UNSAT, then the
\* input CNF has no satisfying assignment.
C27_UnsatSound ==
    (/\ pc = "returned"
     /\ solver \in {"WatchedLiteralsDPLL", "PreprocessingDPLL", "CombinedDPLL"}
     /\ status = "UNSAT")
        => ~Satisfiable(cnfs[cnf], num_vars)

\* C28: in every state reached during and after solve() of any variant,
\* backtracks <= decisions: backtracks is incremented only at a node that has
\* already incremented decisions, at most once per such node, and pure-literal
\* and unit-propagation steps change neither counter.
BacktracksBounded ==
    /\ metrics.backtracks <= metrics.decisions
    /\ smetrics.backtracks <= smetrics.decisions

\* the node whose code runs in this step, as it is after the step
NodeAfter == stack'[Len(stack)]

CountedAtDecisionNodes ==
    LET dec == smetrics'.decisions - smetrics.decisions
        bt == smetrics'.backtracks - smetrics.backtracks
        calls_on == pc' = "search" /\ Len(stack') > Len(stack)
    IN /\ InPreprocess
           => /\ dec = 0 /\ bt = 0
              /\ metrics'.decisions = metrics.decisions
              /\ metrics'.backtracks = metrics.backtracks
       /\ (pc = "search" /\ Len(stack) > 0)
           => /\ dec \in {0, 1} /\ bt \in {0, 1}
              /\ dec = 1 => /\ Top.pc = "call"
                            /\ calls_on => NodeAfter.pc = "pos"
              /\ bt = 1 => /\ Top.pc = "pos"
                           /\ dec = 0
                           /\ calls_on => NodeAfter.pc = "neg"
              /\ (Top.pc = "call" /\ pc' = "search"
                    /\ ~(calls_on /\ NodeAfter.pc = "pos"))
                    => dec = 0 /\ bt = 0

C28_BacktracksAtMostDecisions ==
    []BacktracksBounded /\ [][CountedAtDecisionNodes]_vars

\* a repeated solve() call has returned after a search that backtracked at
\* one of the nodes at which it decided
C28_Witness ==
    /\ pc = "returned"
    /\ calls = 2
    /\ status \in {"SAT", "UNSAT"}
    /\ SolverMetrics.backtracks >= 1
    /\ SolverMetrics.decisions > SolverMetrics.backtracks

\* C29: the encoder's variable numbering var(r,c,v) = r*N*N + c*N + v is
\* injective on r,c in [0,N-1], v in [1,N], and maps these triples onto exactly
\* 1..N^3, so two different (cell, value) pairs never share a propositional
\* variable.
Triples(N) == {Variable(r, c, v, FALSE) : r \in 0..(N - 1), c \in 0..(N - 1), v \in 1..N}

C29_NumberingBijective ==
    LET N == Len(grid)
    IN /\ \A a, b \in Triples(N) : map_variable(N, a) = map_variable(N, b) => a = b
       /\ {map_variable(N, a) : a \in Triples(N)} = 1..(N * N * N)

\* the encoder has returned the clauses of the largest square grid, and they
\* use every number of 1..N^3
C29_Witness ==
    /\ enc = "returned"
    /\ SquareGrid(grid)
    /\ Len(grid) = MaxN
    /\ {Abs(cnfs[1][i][k]) : <<i, k>> \in {<<i, k>> \in (DOMAIN cnfs[1]) \X (1..MaxN) :
                                            k <= Len(cnfs[1][i])}}
           = 1..(MaxN * MaxN * MaxN)

\* C30: the experiment driver never executes a task whose key (puzzle_id,
\* variant, repetition) already has a row in raw_results.csv.
TaskKey(line) ==
    [puzzle_id |-> line.puzzle_id, variant |-> line.variant, repetition |-> line.repetition]

RowKeys(f) == {TaskKey(f.lines[i]) : i \in {j \in DOMAIN f.lines : f.lines[j].kind = "row"}}

C30_NoRecordedTaskExecuted ==
    [][\A task \in pending' \ pending : task \notin RowKeys(csv_file)]_vars

====
